---- MODULE Spec2Model ----
(***************************************************************************)
(* Model of Submissions/my_submission/pipeline.py: the SDRF extraction     *)
(* pipeline (Config, the three extractors, the LLM response normalizer,    *)
(* the row filler and SDRFPipeline.run).                                   *)
(*                                                                         *)
(* Text is modelled at the level of tokens: an LLM response is a sequence  *)
(* of tokens, a token being a code fence, a language tag, white space,     *)
(* prose, or the text of one JSON value.  split, strip, startswith and     *)
(* json.loads are computed on these sequences.                             *)
(*                                                                         *)
(* Python values are records of one shape per level, so that values of     *)
(* different Python types can be compared:                                 *)
(*   cell / list element  [t, s]        t in str, num, null                *)
(*   column value         [t, s, l]     t in str, num, null, bool, list,   *)
(*                                      obj; l the elements of a list      *)
(*   per-file value       [t, m]        m: column -> column value          *)
(*   top-level value      [t, m, n]     m: filename -> per-file value,     *)
(*                                      n the length of a list or string   *)
(***************************************************************************)
EXTENDS Integers, Sequences, FiniteSets, TLC

VARIABLES
    \* ---- main(): Config(), SDRFPipeline(config), pipeline.run()
    pc,               \* position in main() / run()
    environ,          \* os.environ and the files on disk (never written)
    config,           \* the Config object
    prompt_spec,      \* SDRFPipeline._prompt_spec
    extractor,        \* class of SDRFPipeline._extractor
    sub,              \* the template as read (run: sub)
    out_df,           \* run: out_df
    groups,           \* the groups sub.groupby("PXD") has still to yield
    cur,              \* locals of the loop body: pxd, raw_files, manuscript_text, sdrf_per_file
    stdout,           \* lines printed
    written,          \* submission.csv: <<>> or <<table>>
    err,              \* the exception that left run(), "" if none
    calls,            \* history: the extract calls made, in order
    filled,           \* history: the groups whose fill loop completed, in order
    \* ---- the pure functions applied to drawn inputs
    norm_in, norm_out,   \* _parse_llm_json_response(raw_response, raw_files)
    row_in, row_out      \* _sdrf_to_row(raw_file, sdrf_per_file, pred_columns)

pipeVars == <<pc, environ, config, prompt_spec, extractor, sub, out_df, groups,
              cur, stdout, written, err, calls, filled>>
normVars == <<norm_in, norm_out>>
rowVars  == <<row_in, row_out>>
vars     == <<pipeVars, normVars, rowVars>>

----------------------------------------------------------------------------
(* Bounds *)

MaxRows == 2      \* rows of the template
MaxLen  == 4      \* tokens of a response handed to the normalizer

----------------------------------------------------------------------------
(* Constants of the program *)

PREDICTION_COLUMNS_EXCLUDE == <<"ID", "PXD", "Raw Data File", "Usage">>
MANUSCRIPT_KEYS == <<"TITLE", "ABSTRACT", "METHODS">>
NotApplicable == "Not Applicable"

----------------------------------------------------------------------------
(* Python values *)

Str(x)  == [t |-> "str", s |-> x]
Num(x)  == [t |-> "num", s |-> x]
None    == [t |-> "null", s |-> "None"]

VStr(x)   == [t |-> "str",  s |-> x, l |-> <<>>]
VNum(x)   == [t |-> "num",  s |-> x, l |-> <<>>]
VBool(x)  == [t |-> "bool", s |-> x, l |-> <<>>]
VNone     == [t |-> "null", s |-> "None", l |-> <<>>]
VList(xs) == [t |-> "list", s |-> "", l |-> xs]
VObj(x)   == [t |-> "obj",  s |-> x, l |-> <<>>]   \* x is str() of the dict

EmptyFcn == [x \in {} |-> 0]
Meta(m)      == [t |-> "obj", m |-> m]
MetaOther(t) == [t |-> t, m |-> EmptyFcn]
Top(m)          == [t |-> "obj", m |-> m, n |-> Cardinality(DOMAIN m)]
TopOther(t, n)  == [t |-> t, m |-> EmptyFcn, n |-> n]

Range(s) == {s[i] : i \in DOMAIN s}

\* {raw: {} for raw in raw_files}
EmptyMapping(raw_files) == Top([f \in Range(raw_files) |-> Meta(EmptyFcn)])

----------------------------------------------------------------------------
(* Tokens of a response *)

Fence    == "<fence>"          \* the three-backquote delimiter
TagLower == "json"
TagUpper == "JSON"
Newline  == "\n"
Prose    == "no data"
Broken   == "{bad"             \* begins with a brace, is not JSON
TokArr   == "[1]"
TokArr0  == "[]"
TokNum   == "5"
TokStr   == "\"s\""
TokObjA  == "{\"a.raw\": {\"Organism\": \"human\"}}"
TokObjAB == "{\"a.raw\": {\"Organism\": [\"human\"]}, \"b.raw\": {\"Organism\": \"mouse\", \"Instrument\": []}}"
TokObjN  == "{\"a.raw\": {\"Organism\": 5}}"
TokObjM  == "{\"a.raw\": 5}"

ObjTokens  == {TokObjA, TokObjAB, TokObjN, TokObjM}
JsonTokens == ObjTokens \cup {TokArr, TokArr0, TokNum, TokStr}

\* The value each JSON text denotes.
JsonValue(tok) ==
    CASE tok = TokArr   -> TopOther("list", 1)
      [] tok = TokArr0  -> TopOther("list", 0)
      [] tok = TokNum   -> TopOther("num", 0)
      [] tok = TokStr   -> TopOther("str", 1)
      [] tok = TokObjA  -> Top([f \in {"a.raw"} |-> Meta([c \in {"Organism"} |-> VStr("human")])])
      [] tok = TokObjAB -> Top([f \in {"a.raw", "b.raw"} |->
                                 IF f = "a.raw"
                                 THEN Meta([c \in {"Organism"} |-> VList(<<Str("human")>>)])
                                 ELSE Meta([c \in {"Organism", "Instrument"} |->
                                              IF c = "Organism" THEN VStr("mouse") ELSE VList(<<>>)])])
      [] tok = TokObjN  -> Top([f \in {"a.raw"} |-> Meta([c \in {"Organism"} |-> VNum("5")])])
      [] tok = TokObjM  -> Top([f \in {"a.raw"} |-> MetaOther("num")])

----------------------------------------------------------------------------
(* str methods on token sequences *)

IsSpace(tok) == tok \in {Newline, " "}

RECURSIVE LStrip(_)
LStrip(p) == IF p # <<>> /\ IsSpace(Head(p)) THEN LStrip(Tail(p)) ELSE p

RECURSIVE RStrip(_)
RStrip(p) == IF p # <<>> /\ IsSpace(p[Len(p)]) THEN RStrip(SubSeq(p, 1, Len(p) - 1)) ELSE p

\* str.strip()
Strip(p) == RStrip(LStrip(p))

\* str.lower(), on the tokens and characters that have an upper-case form
Lower(tok) ==
    CASE tok = TagUpper -> TagLower
      [] tok = "O" -> "o"
      [] tok = "A" -> "a"
      [] tok = "I" -> "i"
      [] OTHER -> tok

LowerAll(p) == [i \in DOMAIN p |-> Lower(p[i])]

\* text.split(fence)
RECURSIVE Split(_)
Split(text) ==
    IF \A i \in DOMAIN text : text[i] # Fence
    THEN <<text>>
    ELSE LET i == CHOOSE j \in DOMAIN text :
                      text[j] = Fence /\ \A k \in 1..(j - 1) : text[k] # Fence
         IN  <<SubSeq(text, 1, i - 1)>> \o Split(SubSeq(text, i + 1, Len(text)))

\* p.startswith("{")
StartsWithBrace(p) == p # <<>> /\ Head(p) \in ObjTokens \cup {Broken}

\* the p of the loop body: p.strip(), then the language tag dropped
Untag(part) ==
    LET p == Strip(part)
    IN  IF p # <<>> /\ Lower(Head(p)) = TagLower THEN Strip(Tail(p)) ELSE p

\* json.loads(text): [ok, v]; ok = FALSE is json.JSONDecodeError
JsonLoads(text) ==
    LET body == Strip(text)
    IN  IF Len(body) = 1 /\ body[1] \in JsonTokens
        THEN [ok |-> TRUE, v |-> JsonValue(body[1])]
        ELSE IF body # <<>> /\ \A i \in DOMAIN body : body[i] = TokNum
        THEN [ok |-> TRUE, v |-> TopOther("num", 0)]     \* digits run together: one number
        ELSE [ok |-> FALSE, v |-> TopOther("null", 0)]

----------------------------------------------------------------------------
(* _parse_llm_json_response *)

\* lines 195-203: the text handed to json.loads
RECURSIVE FirstBrace(_, _)
FirstBrace(parts, text) ==
    IF parts = <<>> THEN text
    ELSE LET p == Untag(Head(parts))
         IN  IF StartsWithBrace(p) THEN p ELSE FirstBrace(Tail(parts), text)

\* the parts that follow an opening fence, up to its closing fence (or to the
\* end of the text when the fence is never closed)
FencedSegments(text) ==
    LET parts == Split(text)
    IN  [k \in 1..(Len(parts) \div 2) |-> parts[2 * k]]

\* lines 195-203 scanning only the text inside the fences
CandidateTextInsideFences(raw_response) ==
    IF \E i \in DOMAIN raw_response : raw_response[i] = Fence
    THEN FirstBrace(FencedSegments(raw_response), raw_response)
    ELSE raw_response

CandidateText(raw_response) ==
    IF \E i \in DOMAIN raw_response : raw_response[i] = Fence
    THEN FirstBrace(Split(raw_response), raw_response)
    ELSE raw_response

\* lines 209-211 for one file: every str value becomes a one-element list
WrapStrings(m) ==
    [c \in DOMAIN m |-> IF m[c].t = "str" THEN VList(<<Str(m[c].s)>>) ELSE m[c]]

Returned(v, text) == [kind |-> "ok", v |-> v, err |-> "", text |-> text]
Raised(e, text)   == [kind |-> "raise", v |-> TopOther("null", 0), err |-> e, text |-> text]

\* lines 204-212, on the value json.loads returned
Normalize(out, text) ==
    CASE out.t = "obj" ->
            IF \E f \in DOMAIN out.m : out.m[f].t # "obj"
            THEN Raised("AttributeError", text)            \* out[raw].items()
            ELSE Returned(Top([f \in DOMAIN out.m |-> Meta(WrapStrings(out.m[f].m))]), text)
      [] out.t = "list" ->
            IF out.n = 0 THEN Returned(out, text)          \* the loop body never runs
            ELSE Raised("IndexError", text)                \* out[raw] of the list [1]
      [] out.t = "str" ->
            IF out.n = 0 THEN Returned(out, text)
            ELSE Raised("TypeError", text)                 \* out[raw] with a str index
      [] OTHER -> Raised("TypeError", text)                \* for raw in out: not iterable

\* lines 204-212: the candidate text parsed and normalized
ParseText(text, raw_files) ==
    LET loaded == JsonLoads(text)
    IN  IF ~loaded.ok
        THEN Returned(EmptyMapping(raw_files), text)       \* except json.JSONDecodeError
        ELSE Normalize(loaded.v, text)

ParseLLMJsonResponse(raw_response, raw_files) ==
    ParseText(CandidateText(raw_response), raw_files)

----------------------------------------------------------------------------
(* SDRFPipeline._sdrf_to_row *)

\* Python truth value of a column value
Truthy(vals) ==
    CASE vals.t = "str"  -> vals.s # ""
      [] vals.t = "num"  -> vals.s # "0"
      [] vals.t = "bool" -> vals.s = "True"
      [] vals.t = "null" -> FALSE
      [] vals.t = "list" -> vals.l # <<>>
      [] vals.t = "obj"  -> vals.s # "{}"

\* len(vals) is defined
HasLen(vals) == vals.t \in {"str", "list", "obj"}

\* lines 262-266 for one column: [raises, cell]
CellOf(meta, col) ==
    LET vals == IF col \in DOMAIN meta.m THEN meta.m[col] ELSE VNone
    IN  IF Truthy(vals)
        THEN IF ~HasLen(vals) THEN [raises |-> TRUE, cell |-> None]
             ELSE IF vals.t = "list" THEN [raises |-> FALSE, cell |-> vals.l[1]]
             ELSE [raises |-> FALSE, cell |-> Str(vals.s)]
        ELSE [raises |-> FALSE, cell |-> Str(NotApplicable)]

RowReturned(row) == [kind |-> "ok", row |-> row, err |-> ""]
RowRaised(e)     == [kind |-> "raise", row |-> EmptyFcn, err |-> e]

SdrfToRow(raw_file, sdrf_per_file, pred_columns) ==
    IF sdrf_per_file.t # "obj" THEN RowRaised("AttributeError")      \* sdrf_per_file.get
    ELSE LET meta == IF raw_file \in DOMAIN sdrf_per_file.m
                     THEN sdrf_per_file.m[raw_file] ELSE Meta(EmptyFcn)
         IN  IF pred_columns # <<>> /\ meta.t # "obj"
             THEN RowRaised("AttributeError")                        \* meta.get
             ELSE IF \E i \in DOMAIN pred_columns : CellOf(meta, pred_columns[i]).raises
             THEN RowRaised("TypeError")                             \* len(vals)
             ELSE RowReturned([c \in Range(pred_columns) |-> CellOf(meta, c).cell])

----------------------------------------------------------------------------
(* Config, get_extractor, mode_label *)

OPENAI == <<"o", "p", "e", "n", "a", "i">>
OLLAMA == <<"o", "l", "l", "a", "m", "a">>

\* Config.__init__: the fields the pipeline reads
ConfigOf(env) ==
    [llm_provider   |-> LowerAll(Strip(env.LLM_PROVIDER)),
     openai_api_key |-> Strip(env.OPENAI_API_KEY),
     openai_model   |-> "gpt-4o-mini",
     ollama_model   |-> "llama3.2"]

EffectiveProvider(cfg) == cfg.llm_provider

\* get_extractor without the prompt gate
GetExtractorUngated(cfg, prompt) ==
    IF EffectiveProvider(cfg) = OPENAI THEN "OpenAIExtractor"
    ELSE IF EffectiveProvider(cfg) = OLLAMA THEN "OllamaExtractor"
    ELSE "PlaceholderExtractor"

GetExtractor(cfg, prompt) ==
    LET provider == IF prompt # "" THEN EffectiveProvider(cfg) ELSE <<>>
    IN  IF provider = OPENAI THEN "OpenAIExtractor"
        ELSE IF provider = OLLAMA THEN "OllamaExtractor"
        ELSE "PlaceholderExtractor"

ModeLabel(cfg, prompt) ==
    LET provider == IF prompt # "" THEN EffectiveProvider(cfg) ELSE <<>>
    IN  IF provider = OPENAI THEN <<"OpenAI (", cfg.openai_model, ")">>
        ELSE IF provider = OLLAMA THEN <<"Ollama (", cfg.ollama_model, ")">>
        ELSE <<"placeholder">>

\* SDRFPipeline._load_baseline_prompt
LoadBaselinePrompt(env) ==
    IF env.prompt_file # <<>> THEN env.prompt_file[1] ELSE ""

----------------------------------------------------------------------------
(* The template, the manuscript documents *)

TemplateColumns == <<"ID", "PXD", "Organism", "Raw Data File", "Usage", "Instrument">>
PXDS     == <<"PXD001", "PXD002">>           \* in sort order
RawNames == {"a.raw", "b.raw"}

\* pred_columns with "Usage" missing from the excluded columns
PredColumnsWithUsage ==
    SelectSeq(TemplateColumns, LAMBDA c : c \notin {"ID", "PXD", "Raw Data File"})

\* pred_columns of run (lines 278-280)
PredColumns ==
    SelectSeq(TemplateColumns, LAMBDA c : c \notin Range(PREDICTION_COLUMNS_EXCLUDE))

TemplateRow(i, pxd, raw) ==
    [index |-> i,
     cells |-> [c \in Range(TemplateColumns) |->
                  CASE c = "ID"            -> Str(ToString(i))
                    [] c = "PXD"           -> Str(pxd)
                    [] c = "Raw Data File" -> Str(raw)
                    [] c = "Usage"         -> Str("Public")
                    [] OTHER               -> Str("TextSpan")]]

\* every template of n rows; the row index is the row's position
TemplatesOf(n) ==
    {[i \in 1..n |-> TemplateRow(i, p[i], r[i])] :
        p \in [1..n -> Range(PXDS)], r \in [1..n -> RawNames]}

Templates == UNION {TemplatesOf(n) : n \in 0..MaxRows}

NoDoc == <<>>
DocPlain ==
    <<[TITLE |-> <<"Title">>, ABSTRACT |-> <<>>, METHODS |-> <<Newline, "Methods", " ">>,
       has_files |-> FALSE, files |-> <<>>]>>
DocOverride ==
    <<[TITLE |-> <<>>, ABSTRACT |-> <<"Abstract">>, METHODS |-> <<>>,
       has_files |-> TRUE, files |-> <<"x.raw", "a.raw">>]>>

\* SDRFPipeline._get_manuscript_text
RECURSIVE Join(_, _)
Join(parts, sep) ==
    IF parts = <<>> THEN <<>>
    ELSE IF Len(parts) = 1 THEN parts[1]
    ELSE parts[1] \o sep \o Join(Tail(parts), sep)

GetManuscriptText(doc) ==
    LET keys  == SelectSeq(MANUSCRIPT_KEYS, LAMBDA k : doc[k] # <<>>)
        parts == [i \in DOMAIN keys |-> Strip(doc[keys[i]])]
    IN  Join(parts, <<"\n\n">>)

\* Series.unique().tolist(): first occurrences, in order
RECURSIVE Unique(_)
Unique(xs) ==
    IF xs = <<>> THEN <<>>
    ELSE LET init == SubSeq(xs, 1, Len(xs) - 1)
             last == xs[Len(xs)]
         IN  IF last \in Range(init) THEN Unique(init) ELSE Append(Unique(init), last)

\* sub.groupby("PXD"): the group keys, sorted
GroupKeys(df) ==
    SelectSeq(PXDS, LAMBDA p : \E i \in DOMAIN df : df[i].cells["PXD"].s = p)

\* the rows of one group, in template order
GroupOf(df, pxd) == SelectSeq(df, LAMBDA r : r.cells["PXD"].s = pxd)

\* the filename of the group's first row only
GroupRawFilesFirstRow(group) ==
    IF group = <<>> THEN <<>> ELSE <<group[1].cells["Raw Data File"].s>>

\* group["Raw Data File"].unique().tolist()
GroupRawFiles(group) == Unique([i \in DOMAIN group |-> group[i].cells["Raw Data File"].s])

\* lines 287-295 with the text of a missing document taken as str(None)
GroupInputsTextOfNone(pxd, group, doc) ==
    IF doc = NoDoc
    THEN [raw_files |-> GroupRawFiles(group), manuscript_text |-> <<"None">>, warn |-> TRUE]
    ELSE [raw_files |-> IF doc[1].has_files THEN doc[1].files ELSE GroupRawFiles(group),
          manuscript_text |-> GetManuscriptText(doc[1]),
          warn |-> FALSE]

\* lines 287-295 without lines 294-295: the declared file list is not taken
GroupInputsNoOverride(pxd, group, doc) ==
    IF doc = NoDoc
    THEN [raw_files |-> GroupRawFiles(group), manuscript_text |-> <<>>, warn |-> TRUE]
    ELSE [raw_files |-> GroupRawFiles(group),
          manuscript_text |-> GetManuscriptText(doc[1]),
          warn |-> FALSE]

\* lines 287-295: what the loop body computes before the extract call
GroupInputs(pxd, group, doc) ==
    IF doc = NoDoc
    THEN [raw_files |-> GroupRawFiles(group), manuscript_text |-> <<>>, warn |-> TRUE]
    ELSE [raw_files |-> IF doc[1].has_files THEN doc[1].files ELSE GroupRawFiles(group),
          manuscript_text |-> GetManuscriptText(doc[1]),
          warn |-> FALSE]

\* out_df.at[idx, col] = value, for every col of pred_columns
SetRow(df, idx, pred_columns, row_vals) ==
    [i \in DOMAIN df |->
        IF df[i].index = idx
        THEN [df[i] EXCEPT !.cells =
                [c \in DOMAIN df[i].cells |->
                    IF c \in Range(pred_columns) THEN row_vals[c] ELSE df[i].cells[c]]]
        ELSE df[i]]

\* lines 300-305: the rows of the group filled in order, up to the first row
\* whose _sdrf_to_row raises
RECURSIVE FillRows(_, _, _, _)
FillRows(df, group, sdrf_per_file, pred_columns) ==
    IF group = <<>> THEN [df |-> df, err |-> ""]
    ELSE LET r  == Head(group)
             rv == SdrfToRow(r.cells["Raw Data File"].s, sdrf_per_file, pred_columns)
         IN  IF rv.kind = "raise" THEN [df |-> df, err |-> rv.err]
             ELSE FillRows(SetRow(df, r.index, pred_columns, rv.row),
                           Tail(group), sdrf_per_file, pred_columns)

----------------------------------------------------------------------------
(* The inputs of a run *)

ProviderEnv == {<<>>, OPENAI, <<" ", "O", "p", "e", "n", "A", "I", " ">>, OLLAMA,
                <<"g", "r", "o", "q">>}
ApiKeyEnv   == {<<>>, <<"s", "k">>}
PromptFiles == {<<>>, <<"">>, <<"You annotate SDRF.">>}     \* absent, empty, text
TemplateFiles == {<<>>} \cup {<<t>> : t \in Templates}     \* absent, or the table
PubTexts    == [Range(PXDS) -> {NoDoc, DocPlain, DocOverride}]

\* what the chat endpoint may do with one request
LLMResponses ==
    {<<Fence, TagLower, Newline, TokObjA, Newline, Fence>>,
     <<Prose>>,
     <<TokArr>>,
     <<Newline, TokObjAB, Newline>>,
     <<TokObjN>>}
LLMOutcomes ==
    {[kind |-> k, content |-> <<>>] : k \in {"unreachable", "status"}}
        \cup {[kind |-> "ok", content |-> r] : r \in LLMResponses}

NoCur == [pxd |-> "", raw_files |-> <<>>, manuscript_text |-> <<>>,
          sdrf_per_file |-> Top(EmptyFcn)]
NoConfig == [llm_provider |-> <<>>, openai_api_key |-> <<>>,
             openai_model |-> "", ollama_model |-> ""]
NoEnviron == [LLM_PROVIDER |-> <<>>, OPENAI_API_KEY |-> <<>>, prompt_file |-> <<>>,
              template |-> <<>>, pubtext |-> [p \in Range(PXDS) |-> NoDoc]]
NoNormIn  == [raw_response |-> <<>>, raw_files |-> <<>>]
NoNormOut == [kind |-> "none", v |-> TopOther("null", 0), err |-> "", text |-> <<>>]
NoRowIn   == [raw_file |-> "", sdrf_per_file |-> Top(EmptyFcn), pred_columns |-> <<>>]
NoRowOut  == [kind |-> "none", row |-> EmptyFcn, err |-> ""]

PipeIdle ==
    /\ pc = "idle" /\ environ = NoEnviron /\ config = NoConfig /\ prompt_spec = ""
    /\ extractor = "" /\ sub = <<>> /\ out_df = <<>> /\ groups = <<>> /\ cur = NoCur
    /\ stdout = <<>> /\ written = <<>> /\ err = "" /\ calls = <<>> /\ filled = <<>>
NormIdle == norm_in = NoNormIn /\ norm_out = NoNormOut
RowIdle  == row_in = NoRowIn /\ row_out = NoRowOut

----------------------------------------------------------------------------
(* main(): Config(), SDRFPipeline(config), run() *)

Init ==
    /\ pc = "main"
    /\ environ \in [LLM_PROVIDER : ProviderEnv, OPENAI_API_KEY : ApiKeyEnv,
                    prompt_file : PromptFiles, template : TemplateFiles,
                    pubtext : PubTexts]
    /\ config = NoConfig /\ prompt_spec = "" /\ extractor = ""
    /\ sub = <<>> /\ out_df = <<>> /\ groups = <<>> /\ cur = NoCur
    /\ stdout = <<>> /\ written = <<>> /\ err = "" /\ calls = <<>> /\ filled = <<>>
    /\ NormIdle /\ RowIdle

Line(kind, text) == [kind |-> kind, text |-> text]

\* main, line 336: config = Config()
Config__init__ ==
    /\ pc = "main"
    /\ config' = ConfigOf(environ)
    /\ pc' = "pipeline"
    /\ UNCHANGED <<environ, prompt_spec, extractor, sub, out_df, groups, cur, stdout,
                   written, err, calls, filled, normVars, rowVars>>

\* main, line 337: pipeline = SDRFPipeline(config)
SDRFPipeline__init__ ==
    /\ pc = "pipeline"
    /\ prompt_spec' = LoadBaselinePrompt(environ)
    /\ extractor' = GetExtractor(config, LoadBaselinePrompt(environ))
    /\ pc' = "run"
    /\ UNCHANGED <<environ, config, sub, out_df, groups, cur, stdout, written, err,
                   calls, filled, normVars, rowVars>>

\* run, lines 271-274: the template is absent
RunNoTemplate ==
    /\ pc = "run"
    /\ environ.template = <<>>
    /\ err' = "FileNotFoundError"
    /\ pc' = "raised"
    /\ UNCHANGED <<environ, config, prompt_spec, extractor, sub, out_df, groups, cur,
                   stdout, written, calls, filled, normVars, rowVars>>

\* run, lines 276-286: the template read, the mode printed, the groups formed
RunReadTemplate ==
    /\ pc = "run"
    /\ environ.template # <<>>
    /\ sub' = environ.template[1]
    /\ out_df' = environ.template[1]
    /\ groups' = GroupKeys(environ.template[1])
    /\ stdout' = stdout \o <<Line("Data dir", <<>>),
                             Line("Mode", ModeLabel(config, prompt_spec))>>
    /\ pc' = "loop"
    /\ UNCHANGED <<environ, config, prompt_spec, extractor, cur, written, err, calls,
                   filled, normVars, rowVars>>

\* run, lines 286-295: the next group, its filenames, its document
LoopBegin ==
    /\ pc = "loop"
    /\ groups # <<>>
    /\ LET pxd == Head(groups)
           in  == GroupInputs(pxd, GroupOf(sub, pxd), environ.pubtext[pxd])
       IN  /\ cur' = [pxd |-> pxd, raw_files |-> in.raw_files,
                      manuscript_text |-> in.manuscript_text,
                      sdrf_per_file |-> Top(EmptyFcn)]
           /\ stdout' = IF in.warn THEN Append(stdout, Line("Warning: no PubText", <<pxd>>))
                        ELSE stdout
    /\ pc' = "extract"
    /\ UNCHANGED <<environ, config, prompt_spec, extractor, sub, out_df, groups, written,
                   err, calls, filled, normVars, rowVars>>

Call(res) == [pxd |-> cur.pxd, manuscript_text |-> cur.manuscript_text,
              raw_files |-> cur.raw_files, kind |-> res.kind, sdrf_per_file |-> res.v]

\* the extract call returns res, or raises res.err
AfterExtract(res) ==
    /\ calls' = Append(calls, Call(res))
    /\ IF res.kind = "ok"
       THEN /\ cur' = [cur EXCEPT !.sdrf_per_file = res.v]
            /\ pc' = "fill"
            /\ err' = err
       ELSE /\ cur' = cur
            /\ pc' = "raised"
            /\ err' = res.err
    /\ UNCHANGED <<environ, config, prompt_spec, extractor, sub, out_df, groups, stdout,
                   written, filled, normVars, rowVars>>

\* PlaceholderExtractor.extract
ExtractPlaceholder ==
    /\ pc = "extract"
    /\ extractor = "PlaceholderExtractor"
    /\ AfterExtract(Returned(EmptyMapping(cur.raw_files), <<>>))

\* OpenAIExtractor.extract: the request is not guarded
OpenAIExtract(cfg, raw_files, llm) ==
    IF cfg.openai_api_key = <<>>
    THEN Returned(EmptyMapping(raw_files), <<>>)
    ELSE IF llm.kind = "unreachable" THEN Raised("APIConnectionError", <<>>)
    ELSE IF llm.kind = "status" THEN Raised("APIStatusError", <<>>)
    ELSE ParseLLMJsonResponse(Strip(llm.content), raw_files)

ExtractOpenAI ==
    /\ pc = "extract"
    /\ extractor = "OpenAIExtractor"
    /\ \E llm \in LLMOutcomes : AfterExtract(OpenAIExtract(config, cur.raw_files, llm))

\* OllamaExtractor.extract: the request is inside try/except, the parse is not
OllamaExtract(cfg, raw_files, llm) ==
    IF llm.kind # "ok"
    THEN Returned(EmptyMapping(raw_files), <<>>)
    ELSE ParseLLMJsonResponse(Strip(llm.content), raw_files)

ExtractOllama ==
    /\ pc = "extract"
    /\ extractor = "OllamaExtractor"
    /\ \E llm \in LLMOutcomes : AfterExtract(OllamaExtract(config, cur.raw_files, llm))

\* run, lines 300-305: the rows of the group filled
Fill ==
    /\ pc = "fill"
    /\ LET res == FillRows(out_df, GroupOf(sub, cur.pxd), cur.sdrf_per_file, PredColumns)
       IN  /\ out_df' = res.df
           /\ IF res.err = ""
              THEN /\ filled' = Append(filled, cur.pxd)
                   /\ groups' = Tail(groups)
                   /\ pc' = "loop"
                   /\ err' = err
              ELSE /\ filled' = filled
                   /\ groups' = groups
                   /\ pc' = "raised"
                   /\ err' = res.err
    /\ UNCHANGED <<environ, config, prompt_spec, extractor, sub, cur, stdout, written,
                   calls, normVars, rowVars>>

\* run, lines 307-308: out_df.to_csv
WriteCsv ==
    /\ pc = "loop"
    /\ groups = <<>>
    /\ written' = <<out_df>>
    /\ stdout' = Append(stdout, Line("Wrote", <<ToString(Len(out_df)), " rows">>))
    /\ pc' = "score"
    /\ UNCHANGED <<environ, config, prompt_spec, extractor, sub, out_df, groups, cur, err,
                   calls, filled, normVars, rowVars>>

\* run, lines 310-311: the optional scoring prints at most, and swallows its errors
MaybeRunLocalScoring ==
    /\ pc = "score"
    /\ \E line \in {<<>>, <<Line("Local F1", <<>>)>>, <<Line("(Optional scoring skipped)", <<>>)>>} :
          stdout' = stdout \o line
    /\ pc' = "done"
    /\ UNCHANGED <<environ, config, prompt_spec, extractor, sub, out_df, groups, cur,
                   written, err, calls, filled, normVars, rowVars>>

Next ==
    \/ Config__init__
    \/ SDRFPipeline__init__
    \/ RunNoTemplate
    \/ RunReadTemplate
    \/ LoopBegin
    \/ ExtractPlaceholder
    \/ ExtractOpenAI
    \/ ExtractOllama
    \/ Fill
    \/ WriteCsv
    \/ MaybeRunLocalScoring

Spec == Init /\ [][Next]_vars

----------------------------------------------------------------------------
(* _parse_llm_json_response on drawn responses *)

NormTokens == {Fence, TagLower, TagUpper, Newline, Prose, Broken, TokArr, TokArr0,
               TokNum, TokStr, TokObjA, TokObjM}
Responses  == UNION {[1..n -> NormTokens] : n \in 0..MaxLen}
FileLists  == {<<"f.raw">>, <<"a.raw", "b.raw">>}

NormInit ==
    /\ PipeIdle /\ RowIdle
    /\ norm_in \in [raw_response : Responses, raw_files : FileLists]
    /\ norm_out = NoNormOut

ParseCall ==
    /\ norm_out.kind = "none"
    /\ norm_out' = ParseLLMJsonResponse(norm_in.raw_response, norm_in.raw_files)
    /\ UNCHANGED <<pipeVars, norm_in, rowVars>>

NormNext == ParseCall

SpecNorm == NormInit /\ [][NormNext]_vars

----------------------------------------------------------------------------
(* _sdrf_to_row on drawn mappings *)

ColVals ==
    {VStr("human"), VStr(""), VNum("5"), VNum("0"), VBool("True"), VNone,
     VList(<<>>), VList(<<Str("human")>>), VList(<<Num("5")>>), VList(<<None>>),
     VList(<<Str(""), Str("x")>>), VObj("{'k': 1}"), VObj("{}")}
Metas ==
    {Meta(m) : m \in UNION {[S -> ColVals] : S \in SUBSET Range(PredColumns)}}
        \cup {MetaOther("num"), MetaOther("list")}
Mappings ==
    {Top(EmptyFcn), TopOther("list", 0), TopOther("str", 0)}
        \cup {Top([f \in {"a.raw"} |-> meta]) : meta \in Metas}
ColumnLists ==
    {<<>>, <<"Organism">>, <<"Instrument">>, <<"Organism", "Instrument">>,
     <<"Instrument", "Organism">>}

RowInit ==
    /\ PipeIdle /\ NormIdle
    /\ row_in \in [raw_file : RawNames, sdrf_per_file : Mappings, pred_columns : ColumnLists]
    /\ row_out = NoRowOut

RowCall ==
    /\ row_out.kind = "none"
    /\ row_out' = SdrfToRow(row_in.raw_file, row_in.sdrf_per_file, row_in.pred_columns)
    /\ UNCHANGED <<pipeVars, normVars, row_in>>

RowNext == RowCall

SpecRow == RowInit /\ [][RowNext]_vars

----------------------------------------------------------------------------
(* Vocabulary of the properties *)

NA == Str(NotApplicable)

\* json.loads gave an object whose per-file values are all objects
IsFileMapping(loaded) ==
    /\ loaded.ok
    /\ loaded.v.t = "obj"
    /\ \A f \in DOMAIN loaded.v.m : loaded.v.m[f].t = "obj"

\* a stored column value that holds something
NonEmpty(vals) ==
    CASE vals.t = "list" -> vals.l # <<>>
      [] vals.t = "str"  -> vals.s # ""
      [] vals.t = "obj"  -> vals.s # "{}"
      [] vals.t = "num"  -> vals.s # "0"
      [] vals.t = "bool" -> vals.s = "True"
      [] vals.t = "null" -> FALSE

\* the first element of a sequence, or the value itself
FirstOf(vals) == IF vals.t = "list" THEN vals.l[1] ELSE [t |-> vals.t, s |-> vals.s]

\* every per-file value of the mapping is itself a mapping
WellShaped(sdrf_per_file) ==
    /\ sdrf_per_file.t = "obj"
    /\ \A f \in DOMAIN sdrf_per_file.m : sdrf_per_file.m[f].t = "obj"

\* positions of the template rows of one group
RowsOf(pxd) == {j \in DOMAIN sub : sub[j].cells["PXD"].s = pxd}
FileAt(j)   == sub[j].cells["Raw Data File"].s
AllNA(j)    == \A c \in Range(PredColumns) : out_df[j].cells[c] = NA
Declares(pxd) == environ.pubtext[pxd] # NoDoc /\ environ.pubtext[pxd][1].has_files
Warned(pxd) ==
    \E i \in DOMAIN stdout : stdout[i] = Line("Warning: no PubText", <<pxd>>)
ModeLines == {i \in DOMAIN stdout : stdout[i].kind = "Mode"}

\* the groups whose rows have been filled, with the call made for each
FilledCalls == {i \in DOMAIN filled : i \in DOMAIN calls /\ calls[i].pxd = filled[i]}

----------------------------------------------------------------------------
(* C1 *)

\* C1: the normalizer never raises; when the candidate text is not JSON, or is
\* JSON that is not an object of per-file objects, it returns an empty mapping
\* for every requested filename.
C1_NeverRaises ==
    norm_out.kind # "none" =>
        /\ norm_out.kind = "ok"
        /\ ~IsFileMapping(JsonLoads(norm_out.text)) =>
               norm_out.v = EmptyMapping(norm_in.raw_files)

----------------------------------------------------------------------------
(* C2 *)

\* C2: the only error that leaves run() is the missing template.
C2_OnlyMissingTemplateSurfaces ==
    pc = "raised" => /\ err = "FileNotFoundError"
                     /\ environ.template = <<>>

----------------------------------------------------------------------------
(* C3 *)

\* C3: when the filename has an entry and a requested column's stored value is
\* non-empty, _sdrf_to_row returns, and the row's value for that column is the
\* first element (or the value itself if it is no sequence) as a string.
C3_FirstElementAsString ==
    LET in == row_in
        m  == in.sdrf_per_file.m
    IN  (/\ row_out.kind # "none"
         /\ WellShaped(in.sdrf_per_file)
         /\ in.raw_file \in DOMAIN m
         /\ \E c \in Range(in.pred_columns) :
               c \in DOMAIN m[in.raw_file].m /\ NonEmpty(m[in.raw_file].m[c]))
        => /\ row_out.kind = "ok"
           /\ \A c \in Range(in.pred_columns) :
                 (c \in DOMAIN m[in.raw_file].m /\ NonEmpty(m[in.raw_file].m[c]))
                    => row_out.row[c] = Str(FirstOf(m[in.raw_file].m[c]).s)

----------------------------------------------------------------------------
(* C4 *)

\* C4: for every mapping _sdrf_to_row returns a row whose keys are exactly the
\* requested columns, with "Not Applicable" wherever the filename has no entry
\* or the column's value is absent or empty.
C4_RowIsTotal ==
    LET in == row_in
        m  == in.sdrf_per_file.m
    IN  (row_out.kind # "none" /\ WellShaped(in.sdrf_per_file))
        => /\ row_out.kind = "ok"
           /\ DOMAIN row_out.row = Range(in.pred_columns)
           /\ \A c \in Range(in.pred_columns) :
                 (\/ in.raw_file \notin DOMAIN m
                  \/ c \notin DOMAIN m[in.raw_file].m
                  \/ ~NonEmpty(m[in.raw_file].m[c]))
                    => row_out.row[c] = NA

----------------------------------------------------------------------------
(* C10 *)

\* C10 as stated: the text parsed is the first fenced segment that begins with
\* a brace once trimmed and untagged, and the raw response when there is no
\* such segment: the result is that of parsing this text.
C10_CandidateIsFencedSegment ==
    norm_out.kind # "none" =>
        LET segs == FencedSegments(norm_in.raw_response)
            good == {k \in DOMAIN segs : StartsWithBrace(Untag(segs[k]))}
            text == IF good = {} THEN norm_in.raw_response
                    ELSE Untag(segs[CHOOSE x \in good : \A y \in good : x <= y])
            res  == ParseText(text, norm_in.raw_files)
        IN  norm_out.kind = res.kind /\ norm_out.v = res.v /\ norm_out.err = res.err

\* C10 (amended): when the response holds a fence, the text parsed is the first
\* of the parts the fences split it into -- outside the fences as well as
\* inside -- that begins with a brace once trimmed and untagged; without a
\* fence, or without such a part, the raw response is parsed.  An object in a
\* fence, tagged or not, gives what the bare object gives, its string column
\* values wrapped in one-element lists.
C10_CandidateIsFirstBracePart ==
    norm_out.kind # "none" =>
        LET raw   == norm_in.raw_response
            parts == Split(raw)
            good  == {k \in DOMAIN parts : StartsWithBrace(Untag(parts[k]))}
            text  == IF Fence \notin Range(raw) \/ good = {} THEN raw
                     ELSE Untag(parts[CHOOSE x \in good : \A y \in good : x <= y])
            res   == ParseText(text, norm_in.raw_files)
        IN  /\ norm_out.text = text
            /\ norm_out.kind = res.kind /\ norm_out.v = res.v /\ norm_out.err = res.err
            /\ \A tok \in ObjTokens :
                  (/\ Len(raw) >= 3 /\ raw[1] = Fence /\ raw[Len(raw)] = Fence
                   /\ Untag(SubSeq(raw, 2, Len(raw) - 1)) = <<tok>>)
                  => LET bare == ParseText(<<tok>>, norm_in.raw_files)
                         obj  == JsonValue(tok).m
                     IN  /\ norm_out.kind = bare.kind /\ norm_out.v = bare.v
                         /\ norm_out.kind = "ok" =>
                               \A f \in DOMAIN obj : \A c \in DOMAIN obj[f].m :
                                  obj[f].m[c].t = "str" =>
                                     norm_out.v.m[f].m[c] = VList(<<Str(obj[f].m[c].s)>>)

\* the response is an object inside a fence tagged json: the object has been
\* parsed and its string value wrapped
C10_Witness ==
    /\ norm_in.raw_response = <<Fence, TagLower, TokObjA, Fence>>
    /\ norm_out.kind = "ok"
    /\ norm_out.v.m["a.raw"].m["Organism"] = VList(<<Str("human")>>)

----------------------------------------------------------------------------
(* C5 *)

\* C5 as stated: in a finished run every group had exactly one extract call,
\* and the filename list of that call covers every filename of the group's
\* template rows.
C5_CallCoversGroupFiles ==
    pc = "done" =>
        \A p \in Range(GroupKeys(sub)) :
            /\ Cardinality({i \in DOMAIN calls : calls[i].pxd = p}) = 1
            /\ \A i \in DOMAIN calls : calls[i].pxd = p =>
                  \A j \in RowsOf(p) : FileAt(j) \in Range(calls[i].raw_files)

\* C5 (amended): the extract calls are made for the groups in group order, one
\* call per group and never a second one; a group's rows are filled before the
\* next group's call; a run that reaches its end has made exactly one call for
\* every group; the call's filename list covers the group's template filenames
\* whenever the group's document declares no file list of its own.
C5_OneCallPerGroupInOrder ==
    LET keys == GroupKeys(sub)
    IN  /\ Len(calls) <= Len(keys)
        /\ \A i \in DOMAIN calls : calls[i].pxd = keys[i]
        /\ Len(filled) <= Len(calls) /\ Len(calls) <= Len(filled) + 1
        /\ \A i \in DOMAIN filled : filled[i] = keys[i]
        /\ pc \in {"score", "done"} => Len(calls) = Len(keys) /\ filled = keys
        /\ \A i \in DOMAIN calls :
              ~Declares(calls[i].pxd) =>
                  \A j \in RowsOf(calls[i].pxd) : FileAt(j) \in Range(calls[i].raw_files)

\* a finished run of one group of two rows with different filenames and no
\* declared file list: one call, naming both
C5_Witness ==
    /\ pc = "done"
    /\ Len(calls) = 1
    /\ ~Declares(calls[1].pxd)
    /\ Cardinality(RowsOf(calls[1].pxd)) = 2
    /\ Len(calls[1].raw_files) = 2

----------------------------------------------------------------------------
(* C6 *)

\* C6: the Cloud-LLM extractor is selected iff the provider is "openai" and the
\* prompt specification is non-empty, the Local-LLM extractor iff the provider
\* is "ollama" and the prompt specification is non-empty, the Placeholder
\* otherwise; the printed mode label names the selected variant.
C6_StrategySelection ==
    pc \notin {"idle", "main", "pipeline"} =>
        /\ extractor = "OpenAIExtractor"
              <=> (config.llm_provider = OPENAI /\ prompt_spec # "")
        /\ extractor = "OllamaExtractor"
              <=> (config.llm_provider = OLLAMA /\ prompt_spec # "")
        /\ extractor = "PlaceholderExtractor"
              <=> (prompt_spec = "" \/ config.llm_provider \notin {OPENAI, OLLAMA})
        /\ \A i \in ModeLines :
              /\ Head(stdout[i].text) = "OpenAI (" <=> extractor = "OpenAIExtractor"
              /\ Head(stdout[i].text) = "Ollama (" <=> extractor = "OllamaExtractor"
              /\ Head(stdout[i].text) = "placeholder" <=> extractor = "PlaceholderExtractor"

\* the provider is configured as " OpenAI " and the prompt file is empty: the
\* Placeholder has been selected and the mode printed
C6_Witness ==
    /\ ModeLines # {}
    /\ environ.LLM_PROVIDER # OPENAI
    /\ config.llm_provider = OPENAI
    /\ environ.prompt_file = <<"">>
    /\ extractor = "PlaceholderExtractor"

----------------------------------------------------------------------------
(* C7 *)

\* C7: the written table has the rows of the template, in the template's order
\* and with its row index and its columns, and the ID, PXD, Raw Data File and
\* Usage cells of every row are the template's.
C7_OnlyPredictionCellsChange ==
    written # <<>> =>
        LET w == written[1]
            t == environ.template[1]
        IN  /\ Len(w) = Len(t)
            /\ \A i \in DOMAIN t :
                  /\ w[i].index = t[i].index
                  /\ DOMAIN w[i].cells = DOMAIN t[i].cells
                  /\ \A c \in Range(PREDICTION_COLUMNS_EXCLUDE) :
                        w[i].cells[c] = t[i].cells[c]

\* a written table of two rows whose groups are met in the other order than the
\* rows, and whose prediction cells have been filled with extracted values
C7_Witness ==
    /\ written # <<>>
    /\ Len(written[1]) = 2
    /\ written[1][1].cells["PXD"].s = "PXD002"
    /\ written[1][2].cells["PXD"].s = "PXD001"
    /\ written[1][1].cells["Organism"] = Str("human")
    /\ written[1][2].cells["Organism"] = Str("mouse")

----------------------------------------------------------------------------
(* C8 *)

\* C8 as stated: every prediction column of every row of a group without a
\* manuscript document is "Not Applicable".
C8_NoDocumentMeansNotApplicable ==
    \A i \in FilledCalls :
        environ.pubtext[filled[i]] = NoDoc => \A j \in RowsOf(filled[i]) : AllNA(j)

\* C8 (amended): a group without a document is warned about and goes on to its
\* extract call, made with empty manuscript text and the distinct filenames of
\* the group's template rows; a finished run has made a call for every group;
\* the group's rows are filled from what that call returned, so a prediction
\* cell is "Not Applicable" when the result holds no value for the row's
\* filename and column -- always so under the Placeholder extractor.
C8_NoDocumentDegradesToEmptyText ==
    /\ \A p \in Range(PXDS) :
          Warned(p) => /\ environ.pubtext[p] = NoDoc
                       /\ \/ (pc = "extract" /\ cur.pxd = p)
                          \/ \E i \in DOMAIN calls : calls[i].pxd = p
    /\ \A i \in DOMAIN calls :
          environ.pubtext[calls[i].pxd] = NoDoc =>
              /\ Warned(calls[i].pxd)
              /\ calls[i].manuscript_text = <<>>
              /\ Range(calls[i].raw_files) = {FileAt(j) : j \in RowsOf(calls[i].pxd)}
              /\ Cardinality(Range(calls[i].raw_files)) = Len(calls[i].raw_files)
    /\ pc \in {"score", "done"} =>
          \A p \in Range(GroupKeys(sub)) : \E i \in DOMAIN calls : calls[i].pxd = p
    /\ \A i \in FilledCalls :
          environ.pubtext[filled[i]] = NoDoc =>
              \A j \in RowsOf(filled[i]) :
                  LET m == calls[i].sdrf_per_file.m
                  IN  /\ extractor = "PlaceholderExtractor" => AllNA(j)
                      /\ \A c \in Range(PredColumns) :
                            (\/ FileAt(j) \notin DOMAIN m
                             \/ c \notin DOMAIN m[FileAt(j)].m
                             \/ ~NonEmpty(m[FileAt(j)].m[c]))
                                => out_df[j].cells[c] = NA

\* the scenario of the specification: two rows of PXD001 naming a.raw and b.raw,
\* no document for PXD001; the run has finished with a warning and both rows
\* "Not Applicable"
C8_Witness ==
    /\ pc = "done"
    /\ Len(sub) = 2
    /\ environ.pubtext["PXD001"] = NoDoc
    /\ RowsOf("PXD001") = {1, 2}
    /\ FileAt(1) = "a.raw" /\ FileAt(2) = "b.raw"
    /\ Warned("PXD001")
    /\ calls[1].manuscript_text = <<>>
    /\ AllNA(1) /\ AllNA(2)

----------------------------------------------------------------------------
(* C9 *)

\* C9 as stated: a template row whose filename is not in the list passed to the
\* extract call gets "Not Applicable" in every prediction column.
C9_RowOutsideListIsNotApplicable ==
    \A i \in FilledCalls :
        \A j \in RowsOf(filled[i]) :
            FileAt(j) \notin Range(calls[i].raw_files) => AllNA(j)

\* C9 (amended): the list passed to the extract call is the document's declared
\* file list when the document exists and declares one, and the distinct
\* filenames of the group's template rows otherwise; a row is filled by its own
\* filename, so a row whose filename is no key of the extraction result gets
\* "Not Applicable" in every prediction column -- which is the case of a row
\* outside the passed list under the Placeholder extractor, whose result has
\* the passed list as its keys.
C9_OverridePrecedence ==
    /\ \A i \in DOMAIN calls :
          IF Declares(calls[i].pxd)
          THEN calls[i].raw_files = environ.pubtext[calls[i].pxd][1].files
          ELSE /\ Range(calls[i].raw_files) = {FileAt(j) : j \in RowsOf(calls[i].pxd)}
               /\ Cardinality(Range(calls[i].raw_files)) = Len(calls[i].raw_files)
    /\ \A i \in FilledCalls :
          \A j \in RowsOf(filled[i]) :
              /\ FileAt(j) \notin DOMAIN calls[i].sdrf_per_file.m => AllNA(j)
              /\ (extractor = "PlaceholderExtractor"
                     /\ FileAt(j) \notin Range(calls[i].raw_files)) => AllNA(j)

\* the document declares x.raw and a.raw, the template rows name a.raw and
\* b.raw: the call was made with the declared list, the row of a.raw holds the
\* extracted value and the row of b.raw is "Not Applicable"
C9_Witness ==
    /\ pc = "done"
    /\ Len(sub) = 2
    /\ Declares("PXD001")
    /\ RowsOf("PXD001") = {1, 2}
    /\ FileAt(1) = "a.raw" /\ FileAt(2) = "b.raw"
    /\ calls[1].raw_files = <<"x.raw", "a.raw">>
    /\ out_df[1].cells["Organism"] = Str("human")
    /\ AllNA(2)

====
